---- MODULE Spec2Model ----
(***************************************************************************)
(* A model of scripts/generate_metrics_svg.py: the paginated aggregation   *)
(* of stars and language bytes, the chart and stacked-bar geometry of      *)
(* build_svg, and main's sequencing of requests and the file write.        *)
(*                                                                         *)
(* Optional values (a missing JSON key, None, an unset environment         *)
(* variable) are sequences: <<>> is absent/None, <<v>> is the value v.     *)
(* Real numbers are exact fractions [num, den] with den > 0; Python's      *)
(* floats agree with them on the counts drawn here.  The KPI fields of     *)
(* Metrics (followers, commits, ...) and the SVG text are not modelled:    *)
(* build_svg is followed up to its points and segment widths.              *)
(***************************************************************************)
EXTENDS Integers, Sequences, FiniteSets, TLC

VARIABLES
    pc,                 \* position of main()
    environ,            \* [GITHUB_TOKEN, METRICS_TOKEN], each optional
    args,               \* [spark_days, out]: the parsed command line
    requests,           \* every gql request issued, in order
    yielded,            \* every repository page gql returned, in order
    data,               \* the response the running call is working on
    cal,                \* contributionCalendar weeks of the user query
    stars_total,        \* aggregate_stars_and_languages locals
    lang_bytes,
    after,
    m,                  \* the Metrics record build_metrics returns
    in_languages,       \* arguments of a direct call of build_svg
    in_daily,
    svg,                \* what build_svg computed (<<>> before the call)
    outfile,            \* the file at args.out
    rc                  \* main's return code, or the exception it died of

vars == <<pc, environ, args, requests, yielded, data, cal, stars_total,
          lang_bytes, after, m, in_languages, in_daily, svg, outfile, rc>>

None == <<>>
Some(v) == <<v>>

-----------------------------------------------------------------------------
(* Bounds of the model *)

MaxLen == 4          \* longest daily series drawn as an input
MaxCount == 3        \* largest daily contribution count drawn
MaxLangs == 5        \* longest language list drawn (one more than the top 4)
MaxBytes == 5        \* largest language byte count drawn
MaxPages == 3        \* page requests one run may issue

-----------------------------------------------------------------------------
(* Constants of build_svg *)

FallbackDays == 28
cw == 340
ch == 210
pad == 18
x0 == 18
y0 == 56
w == cw - 2 * pad
h == ch - 2 * pad
bar_w == 640
TopK == 4

-----------------------------------------------------------------------------
(* Arithmetic helpers *)

RECURSIVE SumSeq(_)
SumSeq(s) == IF s = <<>> THEN 0 ELSE Head(s) + SumSeq(Tail(s))

MinSeq(s) == CHOOSE v \in {s[i] : i \in DOMAIN s} : \A i \in DOMAIN s : v <= s[i]
MaxSeq(s) == CHOOSE v \in {s[i] : i \in DOMAIN s} : \A i \in DOMAIN s : v >= s[i]

Rat(n, d) == [num |-> n, den |-> d]
RatEq(a, b) == a.num * b.den = b.num * a.den
RatLt(a, b) == a.num * b.den < b.num * a.den
RatLe(a, b) == a.num * b.den <= b.num * a.den
RatOfInt(n) == Rat(n, 1)

\* Python 3 round() of the non-negative fraction n/d: to nearest, ties to even.
RoundHalfEven(n, d) ==
    LET q == n \div d
        r == n % d
    IN  IF 2 * r < d THEN q
        ELSE IF 2 * r > d THEN q + 1
        ELSE IF q % 2 = 0 THEN q ELSE q + 1

\* sorted(xs, key=lambda kv: kv[1], reverse=True): stable, so equal keys keep
\* their input order.  Insertion of each element after the elements >= it.
RECURSIVE InsertDesc(_, _)
InsertDesc(e, s) ==
    IF s = <<>> THEN <<e>>
    ELSE IF Head(s)[2] >= e[2] THEN <<Head(s)>> \o InsertDesc(e, Tail(s))
    ELSE <<e>> \o s

RECURSIVE SortedDesc(_)
SortedDesc(s) ==
    IF s = <<>> THEN <<>>
    ELSE InsertDesc(s[Len(s)], SortedDesc(SubSeq(s, 1, Len(s) - 1)))

Take(s, k) == SubSeq(s, 1, IF Len(s) < k THEN Len(s) ELSE k)

-----------------------------------------------------------------------------
(* build_svg: the cadence chart *)

Zeros(k) == [i \in 1..k |-> 0]

\* if not daily_counts: daily_counts = [0] * 28
DailyOrDefault(daily_counts) ==
    IF daily_counts = <<>> THEN Zeros(FallbackDays) ELSE daily_counts

\* Faulty variant: the maximum is not raised above the minimum on a flat series.
ScaleMaxNoFloor(mn, mx) == mx

\* flat = (mx == mn); if flat: mx = mn + 1
ScaleMax(mn, mx) == IF mx = mn THEN mn + 1 ELSE mx

\* Faulty variant: the spacing divides by the number of samples.
XDenCount(n) == n

\* x = x0 + (w * i / (n - 1 if n > 1 else 1)), i counted from 0
XDen(n) == IF n > 1 THEN n - 1 ELSE 1
XOf(i, n) == Rat(x0 * XDen(n) + w * i, XDen(n))

\* Faulty variant: the y axis is not flipped, larger samples are drawn lower.
YOfNotFlipped(v, mn, mx, flat) ==
    IF flat THEN RatOfInt(y0 + h - 1)
    ELSE Rat(y0 * (mx - mn) + h * (v - mn), mx - mn)

\* y = y0 + h - (h * (v - mn) / (mx - mn)); if flat: y = y0 + h - 1.0
YOf(v, mn, mx, flat) ==
    IF flat THEN RatOfInt(y0 + h - 1)
    ELSE Rat((y0 + h) * (mx - mn) - h * (v - mn), mx - mn)

\* The loop of lines 154-160.  The division by (mx - mn) is evaluated for
\* every sample before the flat override, so a zero denominator raises.
ChartOf(daily_counts) ==
    LET dc == DailyOrDefault(daily_counts)
        n == Len(dc)
        mn == MinSeq(dc)
        mx0 == MaxSeq(dc)
        flat == (mx0 = mn)
        mx == ScaleMax(mn, mx0)
    IN  IF mx - mn = 0
        THEN [n |-> n, flat |-> flat, err |-> "ZeroDivisionError", pts |-> <<>>]
        ELSE [n |-> n, flat |-> flat, err |-> "",
              pts |-> [i \in 1..n |->
                         [x |-> XOf(i - 1, n), y |-> YOf(dc[i], mn, mx, flat)]]]

-----------------------------------------------------------------------------
(* build_svg: the stacked language bar *)

DefaultLanguages == << <<"C++", 73>>, <<"CMake", 15>>, <<"Python", 10>>, <<"Other", 2>> >>

\* if not languages: languages = [...]; langs = sorted(...)[:4]
TopLangs(languages) ==
    Take(SortedDesc(IF languages = <<>> THEN DefaultLanguages ELSE languages), TopK)

\* total = sum(v for _, v in langs) or 1
TotalOf(langs) ==
    LET t == SumSeq([i \in DOMAIN langs |-> langs[i][2]])
    IN  IF t = 0 THEN 1 ELSE t

\* pct = v * 100 / total; wi = int(round(bar_w * pct / 100.0))
ShareWidth(v, total) == RoundHalfEven(bar_w * (v * 100), total * 100)

\* The last segment: widths.append(bar_w - running)
LastWidth(running) == bar_w - running

\* Faulty variant: every segment, the last one too, is rounded on its own.
RECURSIVE WidthsNaive(_, _, _, _)
WidthsNaive(langs, total, i, running) ==
    IF i > Len(langs) THEN <<>>
    ELSE <<ShareWidth(langs[i][2], total)>> \o WidthsNaive(langs, total, i + 1, running)

\* The loop of lines 176-184.
RECURSIVE WidthsFrom(_, _, _, _)
WidthsFrom(langs, total, i, running) ==
    IF i > Len(langs) THEN <<>>
    ELSE IF i < Len(langs)
         THEN LET wi == ShareWidth(langs[i][2], total)
              IN  <<wi>> \o WidthsFrom(langs, total, i + 1, running + wi)
         ELSE <<LastWidth(running)>>

SegmentWidths(languages) ==
    LET langs == TopLangs(languages)
    IN  WidthsFrom(langs, TotalOf(langs), 1, 0)

\* build_svg(values, languages, daily_counts), as far as its geometry goes.
build_svg(languages, daily_counts) ==
    LET c == ChartOf(daily_counts)
    IN  IF c.err # "" THEN [err |-> c.err]
        ELSE [err |-> "", n |-> c.n, flat |-> c.flat, pts |-> c.pts,
              langs |-> TopLangs(languages), widths |-> SegmentWidths(languages)]

-----------------------------------------------------------------------------
(* gql and the two queries *)

\* A raw HTTP reply: status code, whether the body has an "errors" field,
\* and the body's "data".
Reply(status, errors, payload) == [status |-> status, errors |-> errors, data |-> payload]

ReplyOk(r) == r.status = 200 /\ ~r.errors

\* Faulty variant: the "errors" field of the body is not looked at.
gqlIgnoresErrors(r) ==
    IF r.status # 200 THEN [raised |-> TRUE, data |-> None]
    ELSE [raised |-> FALSE, data |-> Some(r.data)]

\* gql(): raise on a status other than 200, raise on "errors", else data["data"].
gql(r) ==
    IF r.status # 200 THEN [raised |-> TRUE, data |-> None]
    ELSE IF r.errors THEN [raised |-> TRUE, data |-> None]
    ELSE [raised |-> FALSE, data |-> Some(r.data)]

\* The variables of a request: fetch_user_core sends no cursor,
\* fetch_repo_stars_and_langs_page sends {"login": user, "after": after}.
UserRequest == [kind |-> "user", after |-> None, state |-> "sent"]
PageRequest(cursor) == [kind |-> "page", after |-> cursor, state |-> "sent"]

Settle(reqs, r) ==
    [reqs EXCEPT ![Len(reqs)].state = IF ReplyOk(r) THEN "ok" ELSE "failed"]

PageRequests == SelectSeq(requests, LAMBDA q : q.kind = "page")

-----------------------------------------------------------------------------
(* aggregate_stars_and_languages: the body of one loop iteration *)

\* int(x or 0)
IntOr0(opt) == IF opt = None THEN 0 ELSE opt[1]

\* (e.get("node") or {}).get("name") or "Other"
EdgeName(e) ==
    IF e.node = None THEN "Other"
    ELSE IF e.node[1].name = None THEN "Other"
    ELSE IF e.node[1].name[1] = "" THEN "Other"
    ELSE e.node[1].name[1]

HasLang(lb, name) == \E i \in DOMAIN lb : lb[i][1] = name

\* Faulty variant: a language seen again replaces its total instead of adding.
AddLangOverwrite(lb, name, size) ==
    IF HasLang(lb, name)
    THEN [i \in DOMAIN lb |-> IF lb[i][1] = name THEN <<name, size>> ELSE lb[i]]
    ELSE Append(lb, <<name, size>>)

\* lang_bytes[name] = lang_bytes.get(name, 0) + size, on an insertion-ordered dict
AddLang(lb, name, size) ==
    IF HasLang(lb, name)
    THEN [i \in DOMAIN lb |-> IF lb[i][1] = name THEN <<name, lb[i][2] + size>> ELSE lb[i]]
    ELSE Append(lb, <<name, size>>)

RECURSIVE AddEdges(_, _)
AddEdges(lb, edges) ==
    IF edges = <<>> THEN lb
    ELSE AddEdges(AddLang(lb, EdgeName(Head(edges)), IntOr0(Head(edges).size)), Tail(edges))

\* node.get("languages", {}).get("edges", []) or []
\* languages: None when the key is missing, Some(None) when it is null.
NodeRaises(node) == node.languages # None /\ node.languages[1] = None

NodeEdges(node) ==
    IF node.languages = None THEN <<>>
    ELSE IF node.languages[1][1].edges = None THEN <<>>
    ELSE node.languages[1][1].edges[1]

\* repos.get("nodes", []) or []
PageNodes(page) == IF page.nodes = None THEN <<>> ELSE page.nodes[1]

\* stars_total += int(node.get("stargazerCount") or 0)
AddStars(total, node) == total + IntOr0(node.stargazerCount)

\* The for loop over the nodes of one page: the locals after it, and whether
\* a node with languages null raised AttributeError (the stars of that node
\* are already added when it does).
RECURSIVE Accumulate(_, _, _)
Accumulate(stars, lb, nodes) ==
    IF nodes = <<>> THEN [stars |-> stars, lb |-> lb, raised |-> FALSE]
    ELSE IF NodeRaises(Head(nodes))
         THEN [stars |-> AddStars(stars, Head(nodes)), lb |-> lb, raised |-> TRUE]
         ELSE Accumulate(AddStars(stars, Head(nodes)),
                         AddEdges(lb, NodeEdges(Head(nodes))), Tail(nodes))

\* pi = repos.get("pageInfo", {}) or {}; if not pi.get("hasNextPage"): break
PageHasNext(page) ==
    /\ page.pageInfo # None
    /\ page.pageInfo[1].hasNextPage # None
    /\ page.pageInfo[1].hasNextPage[1]

\* after = pi.get("endCursor")
PageEndCursor(page) == IF page.pageInfo = None THEN None ELSE page.pageInfo[1].endCursor

\* if not after: break
Falsy(cursor) == cursor = None \/ cursor[1] = ""

\* Whether the loop goes round again after this page.
Continues(page) == PageHasNext(page) /\ ~Falsy(PageEndCursor(page))

-----------------------------------------------------------------------------
(* build_metrics: the daily series *)

RECURSIVE Flatten(_)
Flatten(ss) == IF ss = <<>> THEN <<>> ELSE Head(ss) \o Flatten(Tail(ss))

\* for w in cal.get("weeks", []) or []: for d in w.get("contributionDays", []) or []:
\*     days_list.append((d["date"], int(d.get("contributionCount") or 0)))
DaysList(weeks) ==
    LET ws == IF weeks = None THEN <<>> ELSE weeks[1]
        ds == Flatten([i \in DOMAIN ws |-> IF ws[i] = None THEN <<>> ELSE ws[i][1]])
    IN  [i \in DOMAIN ds |-> <<ds[i].date, IntOr0(ds[i].contributionCount)>>]

\* days_list.sort(key=lambda x: x[0]): stable, ascending by date
RECURSIVE InsertAsc(_, _)
InsertAsc(e, s) ==
    IF s = <<>> THEN <<e>>
    ELSE IF Head(s)[1] <= e[1] THEN <<Head(s)>> \o InsertAsc(e, Tail(s))
    ELSE <<e>> \o s

RECURSIVE SortedByDate(_)
SortedByDate(s) ==
    IF s = <<>> THEN <<>>
    ELSE InsertAsc(s[Len(s)], SortedByDate(SubSeq(s, 1, Len(s) - 1)))

\* s[-k:] in Python: the start index -k is taken from the end when negative
\* and clamped to [0, len]; -0 is 0, so k = 0 keeps the whole list.
LastSlice(s, k) ==
    LET start0 == 0 - k
        start == IF start0 < 0
                 THEN (IF start0 + Len(s) < 0 THEN 0 ELSE start0 + Len(s))
                 ELSE (IF start0 > Len(s) THEN Len(s) ELSE start0)
    IN  SubSeq(s, start + 1, Len(s))

\* daily = [c for _, c in days_list[-spark_days:]]
DailyOf(weeks, spark_days) ==
    LET sl == LastSlice(SortedByDate(DaysList(weeks)), spark_days)
    IN  [i \in DOMAIN sl |-> sl[i][2]]

-----------------------------------------------------------------------------
(* main *)

\* os.environ.get("GITHUB_TOKEN") or os.environ.get("METRICS_TOKEN")
TokenOf(env) ==
    IF env.GITHUB_TOKEN # None /\ env.GITHUB_TOKEN[1] # "" THEN env.GITHUB_TOKEN
    ELSE env.METRICS_TOKEN

\* os.path.dirname of a path given as its components
Dirname(path) == SubSeq(path, 1, Len(path) - 1)

\* The file at args.out: absent, holding an earlier run's content, or holding
\* what this run wrote.
Absent == [state |-> "absent"]
Old == [state |-> "old"]
WriteFile(content) == [state |-> "written", content |-> content]

Written == outfile.state = "written"

\* token lookup; "if not token: ... return 2"
Start ==
    /\ pc = "main"
    /\ IF Falsy(TokenOf(environ))
       THEN pc' = "exit" /\ rc' = "2"
       ELSE pc' = "fetch_user_core" /\ rc' = rc
    /\ UNCHANGED <<environ, args, requests, yielded, data, cal, stars_total,
                   lang_bytes, after, m, in_languages, in_daily, svg, outfile>>

\* build_metrics -> fetch_user_core -> gql -> requests.post
UserQuery ==
    /\ pc = "fetch_user_core"
    /\ requests' = Append(requests, UserRequest)
    /\ pc' = "user_wait"
    /\ UNCHANGED <<environ, args, yielded, data, cal, stars_total, lang_bytes,
                   after, m, in_languages, in_daily, svg, outfile, rc>>

\* The reply to the user query; on success aggregate_stars_and_languages
\* starts (lines 107-110).
UserReply(Replies) ==
    /\ pc = "user_wait"
    /\ \E r \in Replies :
         /\ requests' = Settle(requests, r)
         /\ IF gql(r).raised
            THEN /\ pc' = "exit"
                 /\ rc' = "RuntimeError"
                 /\ UNCHANGED <<cal, stars_total, lang_bytes, after>>
            ELSE /\ pc' = "fetch_page"
                 /\ rc' = rc
                 /\ cal' = gql(r).data[1]
                 /\ stars_total' = 0
                 /\ lang_bytes' = <<>>
                 /\ after' = None
    /\ UNCHANGED <<environ, args, yielded, data, m, in_languages, in_daily,
                   svg, outfile>>

\* data = fetch_repo_stars_and_langs_page(token, user, after): the request
PageQuery ==
    /\ pc = "fetch_page"
    /\ Len(PageRequests) < MaxPages
    /\ requests' = Append(requests, PageRequest(after))
    /\ pc' = "page_wait"
    /\ UNCHANGED <<environ, args, yielded, data, cal, stars_total, lang_bytes,
                   after, m, in_languages, in_daily, svg, outfile, rc>>

\* ... and its reply
PageReply(Replies) ==
    /\ pc = "page_wait"
    /\ \E r \in Replies :
         /\ requests' = Settle(requests, r)
         /\ IF gql(r).raised
            THEN /\ pc' = "exit"
                 /\ rc' = "RuntimeError"
                 /\ UNCHANGED <<yielded, data>>
            ELSE /\ pc' = "page_body"
                 /\ rc' = rc
                 /\ data' = gql(r).data
                 /\ yielded' = Append(yielded, gql(r).data[1])
    /\ UNCHANGED <<environ, args, cal, stars_total, lang_bytes, after, m,
                   in_languages, in_daily, svg, outfile>>

\* Faulty variant: the loop never breaks.
NextPcNoBreak(page) == "fetch_page"

\* Faulty variant: the cursor is not advanced.
NextAfterStale(page, old) == old

\* Lines 114-129: add the page's nodes, then break or go round again.
NextPc(page) == IF Continues(page) THEN "fetch_page" ELSE "aggregated"

NextAfter(page, old) == IF PageHasNext(page) THEN PageEndCursor(page) ELSE old

PageBody ==
    /\ pc = "page_body"
    /\ LET page == data[1]
           acc == Accumulate(stars_total, lang_bytes, PageNodes(page))
       IN  /\ stars_total' = acc.stars
           /\ lang_bytes' = acc.lb
           /\ IF acc.raised
              THEN pc' = "exit" /\ rc' = "AttributeError" /\ after' = after
              ELSE pc' = NextPc(page) /\ rc' = rc /\ after' = NextAfter(page, after)
    /\ data' = None
    /\ UNCHANGED <<environ, args, requests, yielded, cal, m, in_languages,
                   in_daily, svg, outfile>>

\* Lines 131 and 370-392: the totals are returned, daily and langs_sorted are
\* computed, and main passes m.languages and m.daily to build_svg.
BuildMetrics ==
    /\ pc = "aggregated"
    /\ m' = Some([stars |-> stars_total,
                  daily |-> DailyOf(cal, args.spark_days),
                  languages |-> SortedDesc(lang_bytes)])
    /\ in_languages' = m'[1].languages
    /\ in_daily' = m'[1].daily
    /\ pc' = "build_svg"
    /\ UNCHANGED <<environ, args, requests, yielded, data, cal, stars_total,
                   lang_bytes, after, svg, outfile, rc>>

\* svg = build_svg(values, languages, daily_counts)
CallBuildSvg ==
    /\ pc = "build_svg"
    /\ LET out == build_svg(in_languages, in_daily)
       IN  /\ svg' = Some(out)
           /\ IF out.err # ""
              THEN pc' = "exit" /\ rc' = out.err
              ELSE pc' = "write" /\ rc' = rc
    /\ UNCHANGED <<environ, args, requests, yielded, data, cal, stars_total,
                   lang_bytes, after, m, in_languages, in_daily, outfile>>

\* os.makedirs(os.path.dirname(out_path), exist_ok=True) raises
\* FileNotFoundError on the empty dirname of a bare file name; otherwise the
\* file is opened for writing and the svg written.
WriteOut ==
    /\ pc = "write"
    /\ IF Dirname(args.out) = <<>>
       THEN rc' = "FileNotFoundError" /\ outfile' = outfile
       ELSE rc' = "0" /\ outfile' = WriteFile(svg[1])
    /\ pc' = "exit"
    /\ UNCHANGED <<environ, args, requests, yielded, data, cal, stars_total,
                   lang_bytes, after, m, in_languages, in_daily, svg>>

-----------------------------------------------------------------------------
(* Inputs *)

RECURSIVE SeqsUpTo(_, _)
SeqsUpTo(S, k) ==
    IF k = 0 THEN {<<>>}
    ELSE LET shorter == SeqsUpTo(S, k - 1)
         IN  shorter \cup {Append(s, e) : s \in {t \in shorter : Len(t) = k - 1}, e \in S}

\* Daily series passed to build_svg.
DailyInputs == SeqsUpTo(0..MaxCount, MaxLen)

\* Language lists passed to build_svg: the i-th entry is named "L<i>".
LangName(i) == <<"L", i>>
LangInputs ==
    {[i \in DOMAIN bs |-> <<LangName(i), bs[i]>>] : bs \in SeqsUpTo(0..MaxBytes, MaxLangs)}

\* Environments, command lines and files main may start from.
Environs ==
    [GITHUB_TOKEN : {None, Some(""), Some("ghp")}, METRICS_TOKEN : {None, Some("mtk")}]

OutPaths == {<<"assets", "stats", "metrics.svg">>, <<"metrics.svg">>}
SparkDays == {1, 2, FallbackDays}
ArgsInputs == [spark_days : SparkDays, out : OutPaths]

\* contributionCalendar.weeks of the user query's reply.
Day(date, count) == [date |-> date, contributionCount |-> count]
Calendars ==
    { None,
      Some(<<None, Some(<<>>)>>),
      Some(<<Some(<<Day(2, Some(1)), Day(1, None)>>), Some(<<Day(3, Some(4))>>)>>),
      Some(<<Some(<<Day(1, Some(2)), Day(2, Some(2)), Day(3, Some(2))>>)>>) }

\* Repository nodes.
Edge(size, name) == [size |-> size, node |-> Some([name |-> name])]
Node(stars, languages) == [stargazerCount |-> stars, languages |-> languages]
Langs(edges) == Some(Some([edges |-> Some(edges)]))

NodeA == Node(Some(2), Langs(<<Edge(Some(3), Some("C++"))>>))
NodeB == Node(None, Langs(<<Edge(None, Some("C++")), [size |-> Some(1), node |-> None]>>))
NodeC == Node(Some(1), Langs(<<Edge(Some(2), Some("Python")), Edge(Some(1), Some(""))>>))
NodeD == Node(Some(1), None)
NodeNull == Node(Some(1), Some(None))

PageInfo(hasNext, cursor) == Some([hasNextPage |-> hasNext, endCursor |-> cursor])
Page(nodes, info) == [nodes |-> nodes, pageInfo |-> info]

\* Pages with every shape of pageInfo and few shapes of nodes.
CursorPages ==
    { Page(ns, pi) :
        ns \in {None, Some(<<NodeA>>)},
        pi \in { None,
                 PageInfo(None, Some("c2")),
                 PageInfo(Some(FALSE), Some("c1")),
                 PageInfo(Some(TRUE), None),
                 PageInfo(Some(TRUE), Some("")),
                 PageInfo(Some(TRUE), Some("c1")),
                 PageInfo(Some(TRUE), Some("c2")) } }

\* Pages with many shapes of nodes and few shapes of pageInfo.
NodePages ==
    { Page(ns, pi) :
        ns \in { None, Some(<<>>), Some(<<NodeNull>>), Some(<<NodeA>>), Some(<<NodeC>>),
                 Some(<<NodeB, NodeC>>), Some(<<NodeD, NodeA>>), Some(<<NodeB, NodeB>>) },
        pi \in { PageInfo(Some(FALSE), None),
                 PageInfo(Some(TRUE), Some("c1")) } }

\* The replies to a query whose successful payloads are P: each payload with
\* status 200, one of them with an "errors" field, and an HTTP failure.
RepliesOf(P) ==
    {Reply(200, FALSE, p) : p \in P}
        \cup {Reply(200, TRUE, CHOOSE p \in P : TRUE), Reply(502, FALSE, CHOOSE p \in P : TRUE)}

-----------------------------------------------------------------------------
(* Specifications *)

Idle ==
    /\ requests = <<>>
    /\ yielded = <<>>
    /\ data = None
    /\ cal = None
    /\ stars_total = 0
    /\ lang_bytes = <<>>
    /\ after = None
    /\ m = None
    /\ svg = None
    /\ rc = ""

\* main() started from any environment, command line and file.
Init ==
    /\ pc = "main"
    /\ environ \in Environs
    /\ args \in ArgsInputs
    /\ outfile \in {Absent, Old}
    /\ in_languages = <<>>
    /\ in_daily = <<>>
    /\ Idle

Next ==
    \/ Start
    \/ UserQuery
    \/ UserReply(RepliesOf(Calendars))
    \/ PageQuery
    \/ PageReply(RepliesOf(CursorPages))
    \/ PageBody
    \/ BuildMetrics
    \/ CallBuildSvg
    \/ WriteOut

Spec == Init /\ [][Next]_vars

\* main() with a token, the default command line and no calendar, against
\* pages of many node shapes.
InitAgg ==
    /\ pc = "main"
    /\ environ = [GITHUB_TOKEN |-> Some("ghp"), METRICS_TOKEN |-> None]
    /\ args = [spark_days |-> FallbackDays, out |-> <<"assets", "stats", "metrics.svg">>]
    /\ outfile = Absent
    /\ in_languages = <<>>
    /\ in_daily = <<>>
    /\ Idle

NextAgg ==
    \/ Start
    \/ UserQuery
    \/ UserReply(RepliesOf({None}))
    \/ PageQuery
    \/ PageReply(RepliesOf(NodePages))
    \/ PageBody
    \/ BuildMetrics
    \/ CallBuildSvg
    \/ WriteOut

SpecAgg == InitAgg /\ [][NextAgg]_vars

\* The same run against pages of every pageInfo shape.
NextLoop ==
    \/ Start
    \/ UserQuery
    \/ UserReply(RepliesOf({None}))
    \/ PageQuery
    \/ PageReply(RepliesOf(CursorPages))
    \/ PageBody
    \/ BuildMetrics
    \/ CallBuildSvg
    \/ WriteOut

\* The steps of aggregate_stars_and_languages.  The function runs in the one
\* thread of the program, and requests.post returns or raises within its
\* 30 s timeout, so a step of the loop that is enabled is eventually taken.
LoopStep ==
    \/ PageQuery
    \/ PageReply(RepliesOf(CursorPages))
    \/ PageBody

SpecLoop == InitAgg /\ [][NextLoop]_vars /\ WF_vars(LoopStep)

\* build_svg called directly on a daily series, with no languages.
InitChart ==
    /\ pc = "build_svg"
    /\ environ = [GITHUB_TOKEN |-> None, METRICS_TOKEN |-> None]
    /\ args = [spark_days |-> FallbackDays, out |-> <<"metrics.svg">>]
    /\ outfile = Absent
    /\ in_languages = <<>>
    /\ in_daily \in DailyInputs
    /\ Idle

\* build_svg called directly on a language list, with no daily series.
InitBar ==
    /\ pc = "build_svg"
    /\ environ = [GITHUB_TOKEN |-> None, METRICS_TOKEN |-> None]
    /\ args = [spark_days |-> FallbackDays, out |-> <<"metrics.svg">>]
    /\ outfile = Absent
    /\ in_languages \in LangInputs
    /\ in_daily = <<>>
    /\ Idle

NextSvg == CallBuildSvg

SpecChart == InitChart /\ [][NextSvg]_vars
SpecBar == InitBar /\ [][NextSvg]_vars

-----------------------------------------------------------------------------
(* Properties *)

Svg == svg[1]
Called == svg # None
Drawn == Called /\ Svg.err = ""

IsConstant(s) == \A i, j \in DOMAIN s : s[i] = s[j]

RatSub(a, b) == Rat(a.num * b.den - b.num * a.den, a.den * b.den)
RatMul(a, b) == Rat(a.num * b.num, a.den * b.den)

Bottom == RatOfInt(y0 + h)
Top == RatOfInt(y0)
FlatLine == RatOfInt(y0 + h - 1)

\* C1: for every non-empty language list, the segment widths of the stacked
\* bar sum to exactly bar_w = 640.
C1_WidthsSumToBar ==
    (Called /\ in_languages # <<>>) => SumSeq(Svg.widths) = bar_w

\* A list longer than the top 4 whose first share is not a whole number of
\* pixels has been laid out.
C1_Witness ==
    /\ Called
    /\ Len(in_languages) > TopK
    /\ (bar_w * Svg.langs[1][2]) % TotalOf(Svg.langs) # 0

\* C8: every segment width, the last one included, lies in 0..bar_w.
C8_WidthsInRange ==
    Called => \A i \in DOMAIN Svg.widths : 0 <= Svg.widths[i] /\ Svg.widths[i] <= bar_w

\* C4: a constant daily series of length >= 1 is drawn without a division by
\* zero, and every point has y = y0 + h - 1, one unit above the bottom edge.
C4_FlatLine ==
    (Called /\ in_daily # <<>> /\ IsConstant(in_daily)) =>
        /\ Svg.err = ""
        /\ Len(Svg.pts) = Len(in_daily)
        /\ \A i \in DOMAIN Svg.pts :
             /\ RatEq(Svg.pts[i].y, FlatLine)
             /\ RatEq(RatSub(Bottom, Svg.pts[i].y), RatOfInt(1))

\* A constant non-zero series of two or more samples has been drawn.
C4_Witness ==
    /\ Called
    /\ Len(in_daily) >= 2
    /\ IsConstant(in_daily)
    /\ in_daily[1] > 0

\* C5: in a non-constant daily series every minimum sample is drawn on the
\* bottom edge y0 + h, every maximum sample on the top edge y0, every other
\* sample strictly between them on the straight line through the two, and a
\* larger sample never has a larger y than a smaller one.
C5_MinBottomMaxTop ==
    (Called /\ in_daily # <<>> /\ ~IsConstant(in_daily)) =>
        LET mn == MinSeq(in_daily)
            mx == MaxSeq(in_daily)
            y(i) == Svg.pts[i].y
        IN  /\ Svg.err = ""
            /\ Len(Svg.pts) = Len(in_daily)
            /\ \A i \in DOMAIN in_daily :
                 /\ in_daily[i] = mn => RatEq(y(i), Bottom)
                 /\ in_daily[i] = mx => RatEq(y(i), Top)
                 /\ (in_daily[i] # mn /\ in_daily[i] # mx) =>
                       /\ RatLt(Top, y(i))
                       /\ RatLt(y(i), Bottom)
                       /\ RatEq(RatMul(RatSub(Bottom, y(i)), RatOfInt(mx - mn)),
                                RatOfInt(h * (in_daily[i] - mn)))
            /\ \A i, j \in DOMAIN in_daily :
                 in_daily[i] < in_daily[j] => RatLe(y(j), y(i))

\* A series with a sample strictly between its minimum and maximum has been
\* drawn.
C5_Witness ==
    /\ Called
    /\ in_daily # <<>>
    /\ \E i \in DOMAIN in_daily :
         MinSeq(in_daily) < in_daily[i] /\ in_daily[i] < MaxSeq(in_daily)

EvenlySpaced(pts) ==
    \A i, j \in 1..(Len(pts) - 1) :
        RatEq(RatSub(pts[i + 1].x, pts[i].x), RatSub(pts[j + 1].x, pts[j].x))

SpansWidth(pts) ==
    /\ RatEq(pts[1].x, RatOfInt(x0))
    /\ RatEq(pts[Len(pts)].x, RatOfInt(x0 + w))
    /\ EvenlySpaced(pts)
    /\ \A i \in 1..(Len(pts) - 1) : RatLt(pts[i].x, pts[i + 1].x)

\* C6, as claimed: the x-coordinates are evenly spaced from x0 to x0 + w for
\* N >= 2, and a single sample is placed at the midpoint x0 + w/2.
C6_SinglePointAtMidpoint ==
    Drawn =>
        /\ Svg.n >= 2 => SpansWidth(Svg.pts)
        /\ Svg.n = 1 => RatEq(Svg.pts[1].x, Rat(2 * x0 + w, 2))

\* C6, amended: the x-coordinates are evenly spaced from x0 to x0 + w for
\* N >= 2, and a single sample is placed at the left edge x0.
C6_SinglePointAtLeftEdge ==
    Drawn =>
        /\ Len(Svg.pts) = Svg.n
        /\ Svg.n >= 2 => SpansWidth(Svg.pts)
        /\ Svg.n = 1 => RatEq(Svg.pts[1].x, RatOfInt(x0))

\* A series of exactly one sample has been drawn.
C6_Witness == Drawn /\ Len(in_daily) = 1 /\ Svg.n = 1

\* C7: when build_metrics produced an empty daily list, build_svg draws a
\* zero-filled series of the configured spark_days length: that many points,
\* all on the flat line y0 + h - 1.
C7_FallbackHasWindowLength ==
    (Called /\ m # None /\ m[1].daily = <<>>) =>
        /\ Svg.err = ""
        /\ \A i \in DOMAIN Svg.pts : RatEq(Svg.pts[i].y, FlatLine)
        /\ Svg.n = args.spark_days
        /\ Len(Svg.pts) = args.spark_days

-----------------------------------------------------------------------------
(* Properties of the aggregation loop *)

AggReturned == pc = "aggregated" \/ m # None

LastPageSeen == yielded # <<>> /\ ~PageHasNext(yielded[Len(yielded)])

YieldedNodes == Flatten([i \in DOMAIN yielded |-> PageNodes(yielded[i])])
YieldedEdges == Flatten([i \in DOMAIN YieldedNodes |-> NodeEdges(YieldedNodes[i])])

StarsYielded == SumSeq([i \in DOMAIN YieldedNodes |-> IntOr0(YieldedNodes[i].stargazerCount)])

BytesYielded(name) ==
    SumSeq([i \in DOMAIN YieldedEdges |->
              IF EdgeName(YieldedEdges[i]) = name THEN IntOr0(YieldedEdges[i].size) ELSE 0])

NamesYielded == {EdgeName(YieldedEdges[i]) : i \in DOMAIN YieldedEdges}

\* C3: when the loop returns, stars_total is the sum of stargazerCount over
\* every node of every yielded page and lang_bytes maps each language to the
\* sum of its sizes over those nodes, each page counted once per time it was
\* yielded, a missing count or size counting 0.
C3_TotalsAreSums ==
    AggReturned =>
        /\ stars_total = StarsYielded
        /\ {lang_bytes[i][1] : i \in DOMAIN lang_bytes} = NamesYielded
        /\ \A i, j \in DOMAIN lang_bytes : lang_bytes[i][1] = lang_bytes[j][1] => i = j
        /\ \A i \in DOMAIN lang_bytes : lang_bytes[i][2] = BytesYielded(lang_bytes[i][1])

\* The loop has returned after the same non-empty page was yielded twice.
C3_Witness ==
    /\ AggReturned
    /\ Len(yielded) >= 2
    /\ yielded[1].nodes = yielded[2].nodes
    /\ PageNodes(yielded[1]) # <<>>
    /\ lang_bytes # <<>>

\* C9: the first page request carries no cursor; every later one carries the
\* non-empty endCursor of the page returned just before it; and a page with
\* hasNextPage true but no endCursor is followed by no request.
C9_CursorChain ==
    LET P == PageRequests
    IN  /\ \A i \in DOMAIN P :
             IF i = 1 THEN P[i].after = None
             ELSE /\ i - 1 \in DOMAIN yielded
                  /\ yielded[i - 1].pageInfo # None
                  /\ P[i].after = yielded[i - 1].pageInfo[1].endCursor
                  /\ P[i].after # None
                  /\ P[i].after[1] # ""
        /\ \A i \in DOMAIN yielded :
             (PageHasNext(yielded[i]) /\ Falsy(PageEndCursor(yielded[i]))) => Len(P) <= i

\* Three page requests have been issued, the last two with different cursors.
C9_Witness ==
    /\ Len(PageRequests) >= 3
    /\ PageRequests[2].after # PageRequests[3].after

NoToken == environ.GITHUB_TOKEN = None /\ environ.METRICS_TOKEN = None

\* C10: the file is written only after the user query and every page request
\* got a successful reply; with neither token set main returns 2 with no
\* request and no write; a failed request ends the run with no write.
C10_WriteOnlyAfterAllOk ==
    /\ Written =>
          /\ rc = "0"
          /\ Len(requests) >= 2
          /\ requests[1].kind = "user"
          /\ \A i \in DOMAIN requests : requests[i].state = "ok"
          /\ Len(yielded) = Len(PageRequests)
    /\ NoToken => (requests = <<>> /\ ~Written /\ (pc # "main" => rc = "2"))
    /\ (\E i \in DOMAIN requests : requests[i].state = "failed") =>
          (~Written /\ pc = "exit" /\ rc = "RuntimeError")

\* The file has been written after a user query and two or more page requests.
C10_Witness == Written /\ Len(requests) >= 3

====
